---- MODULE Spec2Model ----
(***************************************************************************)
(* A model of tiffview: the grayscale Image container with its indexing    *)
(* and bilinear scale (src/src/image.rs), the sample normalisation and the *)
(* page-loading loop (src/src/tifread.rs), and the viewer's navigation and *)
(* scaled-image cache (src/src/window.rs).                                 *)
(*                                                                         *)
(* Numbers.  usize values are naturals far below 2^64, so no product       *)
(* wraps.  Real values (f32/f64) are held exactly: a scale factor is a     *)
(* fraction <<num, den>> with a power-of-two denominator, a floating       *)
(* sample is a count of 1/FDen units.  On the bounded domains used here    *)
(* every quotient the code truncates, floors or rounds is either exactly   *)
(* representable or further from the nearest integer (or half-integer)     *)
(* than the binary rounding error, so the exact result is the result of    *)
(* the binary32/binary64 computation.                                      *)
(***************************************************************************)
EXTENDS Integers, Sequences, FiniteSets, TLC

VARIABLES
    img,                \* image.rs: the Image the calls act on
    call,               \* image.rs: the last call on img, with its outcome
    page,               \* tifread.rs: a DecodingResult (tag + buffer)
    out,                \* tifread.rs: result of page_to_u8(page)
    container,          \* tifread.rs: the pages behind the decoder
    pc,                 \* tifread.rs: position of read_tiff
    pos,                \* tifread.rs: the decoder's current page (1-based)
    stack,              \* tifread.rs: read_tiff's `stack`
    status,             \* tifread.rs: how read_tiff returned
    decErr,             \* tifread.rs: the last failure the decoder reported
    images,             \* window.rs: ImageViewer.images
    current_index,      \* window.rs: ImageViewer.current_index
    texture,            \* window.rs: ImageViewer.texture
    scaled_image,       \* window.rs: ImageViewer.scaled_image
    last_scale_factor,  \* window.rs: ImageViewer.last_scale_factor
    event               \* window.rs: the last event the viewer handled

vars == <<img, call, page, out, container, pc, pos, stack, status, decErr,
          images, current_index, texture, scaled_image, last_scale_factor, event>>

imageVars == <<img, call>>
normVars == <<page, out>>
loadVars == <<container, pc, pos, stack, status, decErr>>
viewerVars ==
    <<images, current_index, texture, scaled_image, last_scale_factor, event>>

---------------------------------------------------------------------------
(* Bounds *)

MaxDim == 2
MaxLen == 3
MaxSample == 3
MaxPages == 3
MaxFactorNum == 5
MaxDelta == 3
MaxCoord == 3

(* Program constants *)

U8Max == 255
FDen == 2

---------------------------------------------------------------------------
(* Helpers *)

Min(a, b) == IF a < b THEN a ELSE b

Max(a, b) == IF a > b THEN a ELSE b

Abs(a) == IF a < 0 THEN 0 - a ELSE a

None == [some |-> FALSE]

Some(v) == [some |-> TRUE, val |-> v]

Panic == [ok |-> FALSE]

Ok(v) == [ok |-> TRUE, val |-> v]

\* No call made on the Image yet / no event handled by the viewer yet.
NoCall == [op |-> "none"]

NoEvent == [op |-> "none"]

---------------------------------------------------------------------------
(* image.rs *)

\* Image::new: all pixels zero.
ImageNew(nrows, ncols) ==
    [nrows |-> nrows, ncols |-> ncols, pixels |-> [k \in 1..(nrows * ncols) |-> 0]]

\* A from_vec that cuts or zero-pads the buffer to nrows * ncols.
FromVecPadding(nrows, ncols, pixels) ==
    Ok([nrows |-> nrows, ncols |-> ncols,
        pixels |-> [k \in 1..(nrows * ncols) |->
                       IF k <= Len(pixels) THEN pixels[k] ELSE 0]])

\* Image::from_vec: assert_eq!(pixels.len(), nrows * ncols), then the struct.
FromVec(nrows, ncols, pixels) ==
    IF Len(pixels) # nrows * ncols
    THEN Panic
    ELSE Ok([nrows |-> nrows, ncols |-> ncols, pixels |-> pixels])

\* Index<(usize, usize)>::index: the flat offset, checked by the Vec only.
Index(image, i, j) ==
    LET flat_idx == i * image.ncols + j
    IN  IF flat_idx < Len(image.pixels)
        THEN Ok(image.pixels[flat_idx + 1])
        ELSE Panic

\* IndexMut<(usize, usize)>::index_mut followed by the store through it.
IndexMut(image, i, j, value) ==
    LET flat_idx == i * image.ncols + j
    IN  IF flat_idx < Len(image.pixels)
        THEN Ok([image EXCEPT !.pixels[flat_idx + 1] = value])
        ELSE Panic

\* A ScaledDim that rounds the product up.
ScaledDimCeil(n, f) == (n * f[1] + f[2] - 1) \div f[2]

\* (n as f32 * factor) as usize, factor = f[1] / f[2] > 0.
ScaledDim(n, f) == (n * f[1]) \div f[2]

\* The textbook neighbour lo + 1, clamped.
HighNeighbourNext(lo, n) == Min(lo + 1, n - 1)

\* x1 / y1 of scale: the base index clamped to the last row / column.
HighNeighbour(lo, n) == Min(lo, n - 1)

\* One iteration of the loop body of Image::scale, for destination (i, j):
\* x = i / factor = (i * den) / num, so x0 = (i * den) \div num and
\* dx = ((i * den) % num) / num; p is held as a numerator over num * num.
ScalePixel(image, f, i, j) ==
    LET num == f[1]
        den == f[2]
        x0  == (i * den) \div num
        x1  == HighNeighbour(x0, image.nrows)
        y0  == (j * den) \div num
        y1  == HighNeighbour(y0, image.ncols)
        dxn == (i * den) % num
        dyn == (j * den) % num
        p00 == Index(image, x0, y0)
        p01 == Index(image, x0, y1)
        p10 == Index(image, x1, y0)
        p11 == Index(image, x1, y1)
    IN  IF ~(p00.ok /\ p01.ok /\ p10.ok /\ p11.ok)
        THEN Panic
        ELSE LET p0n == p00.val * (num - dyn) + p01.val * dyn
                 p1n == p10.val * (num - dyn) + p11.val * dyn
                 pn  == p0n * (num - dxn) + p1n * dxn
                 \* p.round() as u8: nearest, ties away from zero, saturating
                 rounded == (2 * pn + num * num) \div (2 * num * num)
             IN  Ok(Min(rounded, U8Max))

\* Image::scale.
Scale(image, f) ==
    LET w == ScaledDim(image.ncols, f)
        h == ScaledDim(image.nrows, f)
        px == [k \in 1..(w * h) |-> ScalePixel(image, f, (k - 1) \div w, (k - 1) % w)]
    IN  IF \E k \in 1..(w * h) : ~px[k].ok
        THEN Panic
        ELSE FromVec(h, w, [k \in 1..(w * h) |-> px[k].val])

---------------------------------------------------------------------------
(* Inputs of the image specification *)

Seeds == {0, 7, 250}

Strides == {0, 1, 50}

StoreValues == {0, 9, 255}

\* A buffer of n bytes seed, seed + stride, ... (mod 256).
Ramp(n, seed, stride) == [k \in 1..n |-> (seed + (k - 1) * stride) % (U8Max + 1)]

\* Positive scale factors <<num, den>> in lowest terms, den a power of two.
Factors ==
    {f \in (1..MaxFactorNum) \X {1, 2, 4} : f[2] = 1 \/ f[1] % 2 = 1}

InitRaster ==
    /\ img \in {FromVec(r, c, Ramp(r * c, s, t)).val :
                   r \in 0..MaxDim, c \in 0..MaxDim, s \in Seeds, t \in Strides}
    /\ call = NoCall
    /\ page = [tag |-> "U8", buf |-> <<>>]
    /\ out = None
    /\ container = <<>>
    /\ pc = "idle"
    /\ pos = 0
    /\ stack = <<>>
    /\ status = "idle"
    /\ decErr = "none"
    /\ images = <<>>
    /\ current_index = 0
    /\ texture = None
    /\ scaled_image = None
    /\ last_scale_factor = <<1, 1>>
    /\ event = NoEvent

\* Image::from_vec(rows, cols, samples); the Image built replaces img.
CallFromVec ==
    /\ call = NoCall
    /\ \E rows \in 0..MaxDim, cols \in 0..MaxDim, n \in 0..(MaxDim * MaxDim + 1),
          s \in Seeds, t \in Strides :
          LET samples == Ramp(n, s, t)
              r == FromVec(rows, cols, samples)
          IN  /\ call' = [op |-> "from_vec", before |-> img, rows |-> rows,
                          cols |-> cols, samples |-> samples, ok |-> r.ok,
                          image |-> IF r.ok THEN Some(r.val) ELSE None]
              /\ img' = IF r.ok THEN r.val ELSE img

\* img[(row, col)]
CallIndex ==
    /\ call = NoCall
    /\ \E row \in 0..MaxCoord, col \in 0..MaxCoord :
          LET r == Index(img, row, col)
          IN  /\ call' = [op |-> "index", before |-> img, row |-> row, col |-> col,
                          ok |-> r.ok, value |-> IF r.ok THEN Some(r.val) ELSE None]
              /\ img' = img

\* img[(row, col)] = value
CallIndexMut ==
    /\ call = NoCall
    /\ \E row \in 0..MaxCoord, col \in 0..MaxCoord, value \in StoreValues :
          LET r == IndexMut(img, row, col, value)
          IN  /\ call' = [op |-> "index_mut", before |-> img, row |-> row,
                          col |-> col, value |-> value, ok |-> r.ok]
              /\ img' = IF r.ok THEN r.val ELSE img

\* img.scale(factor)
CallScale ==
    /\ call = NoCall
    /\ \E f \in Factors :
          LET r == Scale(img, f)
          IN  /\ call' = [op |-> "scale", before |-> img, factor |-> f, ok |-> r.ok,
                          image |-> IF r.ok THEN Some(r.val) ELSE None]
              /\ img' = img

NextRaster ==
    \/ CallFromVec /\ UNCHANGED <<normVars, loadVars, viewerVars>>
    \/ CallIndex /\ UNCHANGED <<normVars, loadVars, viewerVars>>
    \/ CallIndexMut /\ UNCHANGED <<normVars, loadVars, viewerVars>>
    \/ CallScale /\ UNCHANGED <<normVars, loadVars, viewerVars>>

---------------------------------------------------------------------------
(* tifread.rs: normalisation *)

IntTags == {"U16", "U32", "U64", "I8", "I16", "I32", "I64"}

UnsignedTags == {"U8", "U16", "U32", "U64"}

FloatTags == {"F32", "F64"}

Tags == {"U8"} \cup IntTags \cup FloatTags

\* Iterator::reduce / min_by / max_by: a left fold of a non-empty sequence.
RECURSIVE Reduce(_, _, _, _)
Reduce(buf, k, acc, takeMin) ==
    IF k > Len(buf)
    THEN acc
    ELSE Reduce(buf, k + 1,
                IF takeMin THEN Min(acc, buf[k]) ELSE Max(acc, buf[k]), takeMin)

MinOf(buf) == Reduce(buf, 2, buf[1], TRUE)

MaxOf(buf) == Reduce(buf, 2, buf[1], FALSE)

\* A span that is one too wide.
SpanWide(minv, maxv, one) == IF maxv # minv THEN maxv - minv + 1 ELSE one

\* span: max - min, or the type's one when the buffer is constant.
Span(minv, maxv, one) == IF maxv # minv THEN maxv - minv ELSE one

\* `as u8` of the non-negative real num / den: truncation, saturating.
AsU8(num, den) == Min(num \div den, U8Max)

\* to_u8_int: samples are integers; (normalized * 255.0).clamp(0.0, 255.0) as u8
\* with normalized = (value - min) / span.
ToU8Int(buf) ==
    IF buf = <<>>
    THEN <<>>
    ELSE LET minv == MinOf(buf)
             maxv == MaxOf(buf)
             span == Span(minv, maxv, 1)
         IN  [k \in 1..Len(buf) |->
                LET scaled == (buf[k] - minv) * U8Max    \* over span
                    clamped == Min(Max(scaled, 0), U8Max * span)
                IN  AsU8(clamped, span)]

\* to_u8_float: samples are counts of 1/FDen; frac = normalized.clamp(0.0, 1.0)
\* with normalized = (value - min) / span, then (frac * 255.0) as u8.
ToU8Float(buf) ==
    IF buf = <<>>
    THEN <<>>
    ELSE LET minv == MinOf(buf)
             maxv == MaxOf(buf)
             span == Span(minv, maxv, FDen)
         IN  [k \in 1..Len(buf) |->
                LET normalized == buf[k] - minv          \* over span
                    frac == Min(Max(normalized, 0), span)
                IN  AsU8(frac * U8Max, span)]

\* page_to_u8: the match on the DecodingResult tag.
PageToU8(result) ==
    CASE result.tag = "U8" -> result.buf
      [] result.tag \in IntTags -> ToU8Int(result.buf)
      [] result.tag \in FloatTags -> ToU8Float(result.buf)

\* The sample values of a tag: integers, or counts of 1/FDen for the floats.
SamplesOf(tag) ==
    IF tag \in FloatTags THEN (0 - MaxSample * FDen)..(MaxSample * FDen)
    ELSE IF tag \in UnsignedTags THEN 0..MaxSample
    ELSE (0 - MaxSample)..MaxSample

InitNorm ==
    /\ \E t \in Tags, n \in 0..MaxLen :
           \E b \in [1..n -> SamplesOf(t)] : page = [tag |-> t, buf |-> b]
    /\ out = None
    /\ img = ImageNew(0, 0)
    /\ call = NoCall
    /\ container = <<>>
    /\ pc = "idle"
    /\ pos = 0
    /\ stack = <<>>
    /\ status = "idle"
    /\ decErr = "none"
    /\ images = <<>>
    /\ current_index = 0
    /\ texture = None
    /\ scaled_image = None
    /\ last_scale_factor = <<1, 1>>
    /\ event = NoEvent

\* page_to_u8(page)
CallPageToU8 ==
    /\ ~out.some
    /\ out' = Some(PageToU8(page))
    /\ page' = page

NextNorm ==
    CallPageToU8 /\ UNCHANGED <<imageVars, loadVars, viewerVars>>

---------------------------------------------------------------------------
(* tifread.rs: read_tiff *)

\* Pages the decoder can hold: width, height and the decoded samples.  The
\* last kind carries three samples per pixel, so its buffer is longer than
\* width * height.
ContainerPages ==
    {[width |-> 1, height |-> 1, data |-> [tag |-> "U8", buf |-> <<9>>]],
     [width |-> 2, height |-> 1, data |-> [tag |-> "U16", buf |-> <<0, 3>>]],
     [width |-> 1, height |-> 2, data |-> [tag |-> "I8", buf |-> <<1, 0 - 1>>]],
     [width |-> 2, height |-> 1, data |-> [tag |-> "F32", buf |-> <<2, 6>>]],
     [width |-> 1, height |-> 1, data |-> [tag |-> "U8", buf |-> <<1, 2, 3>>]]}

InitLoad ==
    /\ \E n \in 1..MaxPages : container \in [1..n -> ContainerPages]
    /\ pc = "open"
    /\ pos = 0
    /\ stack = <<>>
    /\ status = "running"
    /\ decErr = "none"
    /\ img = ImageNew(0, 0)
    /\ call = NoCall
    /\ page = [tag |-> "U8", buf |-> <<>>]
    /\ out = None
    /\ images = <<>>
    /\ current_index = 0
    /\ texture = None
    /\ scaled_image = None
    /\ last_scale_factor = <<1, 1>>
    /\ event = NoEvent

\* File::open(path)?
Open ==
    /\ pc = "open"
    /\ \/ pc' = "new" /\ status' = status
       \/ pc' = "done" /\ status' = "Err"
    /\ UNCHANGED <<container, pos, stack, decErr>>

\* Decoder::new(fp)?: on success the decoder stands on the first page.
NewDecoder ==
    /\ pc = "new"
    /\ \/ pc' = "dimensions" /\ pos' = 1 /\ UNCHANGED <<status, decErr>>
       \/ pc' = "done" /\ status' = "Err" /\ decErr' = "other" /\ pos' = pos
    /\ UNCHANGED <<container, stack>>

\* decoder.dimensions()?
Dimensions ==
    /\ pc = "dimensions"
    /\ \/ pc' = "read_image" /\ UNCHANGED <<status, decErr>>
       \/ pc' = "done" /\ status' = "Err" /\ decErr' = "other"
    /\ UNCHANGED <<container, pos, stack>>

\* decoder.read_image()?, page_to_u8, Image::from_vec(height, width, ..), push.
ReadImage ==
    /\ pc = "read_image"
    /\ \/ LET cur == container[pos]
              decoded == PageToU8(cur.data)
              r == FromVec(cur.height, cur.width, decoded)
          IN  IF r.ok
              THEN /\ stack' = Append(stack, r.val)
                   /\ pc' = "next_image"
                   /\ UNCHANGED <<status, decErr>>
              ELSE /\ pc' = "done"
                   /\ status' = "Panic"
                   /\ UNCHANGED <<stack, decErr>>
       \/ pc' = "done" /\ status' = "Err" /\ decErr' = "other" /\ stack' = stack
    /\ UNCHANGED <<container, pos>>

\* if decoder.next_image().is_err() { break } ... Ok(stack): the decoder
\* advances, reports that no page is left, or fails on the next directory.
NextImage ==
    /\ pc = "next_image"
    /\ \/ /\ pos < Len(container)
          /\ pos' = pos + 1
          /\ pc' = "dimensions"
          /\ UNCHANGED <<status, decErr>>
       \/ /\ pos = Len(container)
          /\ decErr' = "no_more_pages"
          /\ pc' = "done"
          /\ status' = "Ok"
          /\ pos' = pos
       \/ /\ pos < Len(container)
          /\ decErr' = "other"
          /\ pc' = "done"
          /\ status' = "Ok"
          /\ pos' = pos
    /\ UNCHANGED <<container, stack>>

NextLoad ==
    \/ Open /\ UNCHANGED <<imageVars, normVars, viewerVars>>
    \/ NewDecoder /\ UNCHANGED <<imageVars, normVars, viewerVars>>
    \/ Dimensions /\ UNCHANGED <<imageVars, normVars, viewerVars>>
    \/ ReadImage /\ UNCHANGED <<imageVars, normVars, viewerVars>>
    \/ NextImage /\ UNCHANGED <<imageVars, normVars, viewerVars>>

---------------------------------------------------------------------------
(* window.rs *)

\* isize `%`: the remainder has the sign of the dividend.
TruncRem(a, n) == IF a >= 0 THEN a % n ELSE 0 - ((0 - a) % n)

\* A remainder folded into range by dropping the sign.
RemAbs(a, n) == Abs(TruncRem(a, n))

\* isize::rem_euclid for n > 0.
RemEuclid(a, n) ==
    LET r == TruncRem(a, n)
    IN  IF r < 0 THEN r + Abs(n) ELSE r

\* (a - b).abs() > 0.01 for the fractions a and b.
DiffersSignificantly(a, b) ==
    100 * Abs(a[1] * b[2] - b[1] * a[2]) > a[2] * b[2]

\* The ColorImage uploaded by update_texture: Color32::from_gray per pixel.
ColorImage(scaled) ==
    [size |-> <<scaled.ncols, scaled.nrows>>,
     pixels |-> [k \in 1..Len(scaled.pixels) |->
                    <<scaled.pixels[k], scaled.pixels[k], scaled.pixels[k], U8Max>>]]

ViewerImages ==
    {FromVec(d[1], d[2], Ramp(d[1] * d[2], 7, 50)).val :
        d \in {<<1, 1>>, <<MaxDim, 1>>, <<MaxDim, MaxDim>>}}

\* Factors the fit-to-window computation hands over; two of them are closer
\* than 0.01.
ViewerFactors == {<<1, 2>>, <<1, 1>>, <<129, 128>>, <<2, 1>>}

\* ImageViewer::new(images)
InitViewer ==
    /\ \E n \in 0..MaxPages : images \in [1..n -> ViewerImages]
    /\ current_index = 0
    /\ texture = None
    /\ scaled_image = None
    /\ last_scale_factor = <<1, 1>>
    /\ event = NoEvent
    /\ img = ImageNew(0, 0)
    /\ call = NoCall
    /\ page = [tag |-> "U8", buf |-> <<>>]
    /\ out = None
    /\ container = <<>>
    /\ pc = "idle"
    /\ pos = 0
    /\ stack = <<>>
    /\ status = "idle"
    /\ decErr = "none"

\* A navigate that moves the index and keeps the cache.
NavigateKeepCache(delta) ==
    /\ event' = [op |-> "navigate", delta |-> delta, from |-> current_index]
    /\ IF images = <<>>
       THEN UNCHANGED <<current_index, texture, scaled_image>>
       ELSE /\ current_index' = RemEuclid(current_index + delta, Len(images))
            /\ UNCHANGED <<texture, scaled_image>>
    /\ UNCHANGED <<images, last_scale_factor>>

\* ImageViewer::navigate(delta)
Navigate(delta) ==
    /\ event' = [op |-> "navigate", delta |-> delta, from |-> current_index]
    /\ IF images = <<>>
       THEN UNCHANGED <<current_index, texture, scaled_image>>
       ELSE LET new_index == RemEuclid(current_index + delta, Len(images))
            IN  IF new_index # current_index
                THEN /\ current_index' = new_index
                     /\ texture' = None
                     /\ scaled_image' = None
                ELSE UNCHANGED <<current_index, texture, scaled_image>>
    /\ UNCHANGED <<images, last_scale_factor>>

\* ImageViewer::update_texture(ctx, scale_factor)
UpdateTexture(scale_factor) ==
    /\ event' = [op |-> "update_texture", scale_factor |-> scale_factor]
    /\ IF images = <<>>
       THEN UNCHANGED <<texture, scaled_image, last_scale_factor>>
       ELSE LET needs_rescale == DiffersSignificantly(scale_factor, last_scale_factor)
                rescaled == needs_rescale \/ ~scaled_image.some
                cached == IF rescaled
                          THEN Scale(images[current_index + 1], scale_factor).val
                          ELSE scaled_image.val
            IN  /\ scaled_image' = Some(cached)
                /\ last_scale_factor' =
                       IF rescaled THEN scale_factor ELSE last_scale_factor
                /\ texture' = Some(ColorImage(cached))
    /\ UNCHANGED <<images, current_index>>

\* A key press or scroll step: navigate(delta).
NavigateEvent == \E delta \in (0 - MaxDelta)..MaxDelta : Navigate(delta)

\* A frame of update() over a non-empty page sequence: update_texture(ctx, scale)
\* is called only if self.texture.is_none() or the scale moved by more than 0.01.
UpdateTextureEvent ==
    \E f \in ViewerFactors :
        /\ images # <<>>
        /\ ~texture.some \/ DiffersSignificantly(f, last_scale_factor)
        /\ UpdateTexture(f)

NextViewer ==
    \/ NavigateEvent /\ UNCHANGED <<imageVars, normVars, loadVars>>
    \/ UpdateTextureEvent /\ UNCHANGED <<imageVars, normVars, loadVars>>

-------------------------------------------------------------------------------------------------------------------------------------------------
(* Specifications: the parts a specification does not exercise stay idle. *)

SpecRaster == InitRaster /\ [][NextRaster]_vars

SpecNorm == InitNorm /\ [][NextNorm]_vars

SpecLoad == InitLoad /\ [][NextLoad]_vars

SpecViewer == InitViewer /\ [][NextViewer]_vars

-----
(* Properties of the Image container (SpecRaster) *)

IsIndexCall == call.op \in {"index", "index_mut"}

\* C1: an access with row >= rows or col >= cols aborts; it neither returns a
\* sample nor changes one.
C1_AccessBoundsCheckedPerCoordinate ==
    (IsIndexCall /\ (call.row >= call.before.nrows \/ call.col >= call.before.ncols))
        => (~call.ok /\ img = call.before)

\* C2: from_vec fails exactly when the buffer length differs from rows * cols,
\* then builds nothing and leaves the Image in place; otherwise the Image built
\* has the given dimensions and the buffer unchanged.
C2_FromVecChecksLength ==
    (call.op = "from_vec") =>
        IF Len(call.samples) # call.rows * call.cols
        THEN ~call.ok /\ ~call.image.some /\ img = call.before
        ELSE /\ call.ok
             /\ call.image.some
             /\ call.image.val.nrows = call.rows
             /\ call.image.val.ncols = call.cols
             /\ call.image.val.pixels = call.samples
             /\ img = call.image.val

C2_Witness ==
    /\ call.op = "from_vec"
    /\ ~call.ok
    /\ Len(call.samples) > 0
    /\ Len(call.samples) < call.rows * call.cols

\* n is the floor of m * factor.
IsFloorOfProduct(n, m, f) == n * f[2] <= m * f[1] /\ m * f[1] < (n + 1) * f[2]

\* q is the floor of i / factor.
IsFloorOfQuotient(q, i, f) == q * f[1] <= i * f[2] /\ i * f[2] < (q + 1) * f[1]

\* C6: scale returns an Image of floor(rows * factor) rows, floor(cols * factor)
\* columns and rows * cols samples, for every positive factor, also when a
\* dimension floors to zero.
C6_ScaleDimensions ==
    (call.op = "scale") =>
        /\ call.ok
        /\ IsFloorOfProduct(call.image.val.nrows, call.before.nrows, call.factor)
        /\ IsFloorOfProduct(call.image.val.ncols, call.before.ncols, call.factor)
        /\ Len(call.image.val.pixels) = call.image.val.nrows * call.image.val.ncols

C6_Witness ==
    /\ call.op = "scale"
    /\ call.before.nrows > 0
    /\ call.before.ncols > 0
    /\ call.ok
    /\ call.image.val.nrows = 0

IsUniform(pixels) == \A a \in DOMAIN pixels, b \in DOMAIN pixels : pixels[a] = pixels[b]

\* C8: scaling a non-empty Image keeps every base index inside the source, so
\* the clamped neighbour is the base index and each destination sample is the
\* source sample at (floor(i / factor), floor(j / factor)); factor 1 copies the
\* Image and a uniform source gives a uniform result.
C8_ScaleTakesBaseSample ==
    (call.op = "scale" /\ call.before.nrows > 0 /\ call.before.ncols > 0) =>
        /\ call.ok
        /\ LET src == call.before
               dst == call.image.val
           IN  /\ \A i \in 0..(dst.nrows - 1), j \in 0..(dst.ncols - 1) :
                      \E x0 \in 0..(src.nrows - 1), y0 \in 0..(src.ncols - 1) :
                          /\ IsFloorOfQuotient(x0, i, call.factor)
                          /\ IsFloorOfQuotient(y0, j, call.factor)
                          /\ HighNeighbour(x0, src.nrows) = x0
                          /\ HighNeighbour(y0, src.ncols) = y0
                          /\ dst.pixels[i * dst.ncols + j + 1] =
                                 src.pixels[x0 * src.ncols + y0 + 1]
               /\ (call.factor = <<1, 1>> => dst = src)
               /\ (IsUniform(src.pixels) => IsUniform(dst.pixels))

C8_Witness ==
    /\ call.op = "scale"
    /\ call.factor = <<3, 2>>
    /\ call.before.nrows = MaxDim
    /\ call.before.ncols = MaxDim
    /\ ~IsUniform(call.before.pixels)
    /\ call.ok
    /\ call.image.val.nrows > call.before.nrows

---------------------------------------------------------------------------
(* Properties of the normalisation (SpecNorm) *)

Normalised == out.some /\ page.tag # "U8" /\ page.buf # <<>>

Least(buf) == CHOOSE m \in {buf[k] : k \in DOMAIN buf} : \A k \in DOMAIN buf : m <= buf[k]

Greatest(buf) == CHOOSE m \in {buf[k] : k \in DOMAIN buf} : \A k \in DOMAIN buf : m >= buf[k]

\* Nearest integer (ties up) to 255 * clamp((v - min) / span, 0, 1).
RoundedByte(v, minv, span) ==
    LET num == Min(Max(v - minv, 0), span)
    IN  (2 * U8Max * num + span) \div (2 * span)

\* C4: the floating-point path rounds to nearest: each output byte is the
\* nearest integer to 255 * clamp((v - min) / span, 0, 1), span being max - min
\* or 1 for a constant buffer; [1.0, 2.0, 3.0] gives [0, 128, 255].
C4_FloatPathRoundsToNearest ==
    (Normalised /\ page.tag \in FloatTags) =>
        LET minv == Least(page.buf)
            maxv == Greatest(page.buf)
            span == IF maxv # minv THEN maxv - minv ELSE FDen
        IN  /\ Len(out.val) = Len(page.buf)
            /\ \A k \in DOMAIN page.buf :
                   out.val[k] = RoundedByte(page.buf[k], minv, span)

\* The byte expected at 255: exact on the integer path, within 1 on the
\* floating path.
IsTopByte(b, tag) == IF tag \in FloatTags THEN Abs(b - U8Max) <= 1 ELSE b = U8Max

\* C5 as stated: the output keeps the length, every minimum maps to 0 and every
\* maximum maps to 255 (within 1 on the floating path).
C5_MinToZeroMaxToTop ==
    Normalised =>
        /\ Len(out.val) = Len(page.buf)
        /\ \A k \in DOMAIN page.buf :
              /\ (page.buf[k] = Least(page.buf) => out.val[k] = 0)
              /\ (page.buf[k] = Greatest(page.buf) => IsTopByte(out.val[k], page.tag))

\* C5, amended: the output keeps the length and every minimum maps to 0; every
\* maximum maps to 255 (within 1 on the floating path) when the buffer is not
\* constant, and a constant buffer maps to zeros.
C5_MinToZeroMaxToTopUnlessConstant ==
    Normalised =>
        /\ Len(out.val) = Len(page.buf)
        /\ \A k \in DOMAIN page.buf :
              /\ (page.buf[k] = Least(page.buf) => out.val[k] = 0)
              /\ (/\ page.buf[k] = Greatest(page.buf)
                  /\ Greatest(page.buf) # Least(page.buf))
                    => IsTopByte(out.val[k], page.tag)
        /\ (Greatest(page.buf) = Least(page.buf) =>
                \A k \in DOMAIN page.buf : out.val[k] = 0)

C5_Witness ==
    /\ Normalised
    /\ page.tag = "I16"
    /\ Len(page.buf) = MaxLen
    /\ Least(page.buf) < 0
    /\ Greatest(page.buf) > 0
    /\ \E k \in DOMAIN out.val : out.val[k] = U8Max
    /\ \E k \in DOMAIN out.val : out.val[k] = 0

---------------------------------------------------------------------------
(* Properties of read_tiff (SpecLoad) *)

\* C3: only the decoder's "no more pages" on advancing ends the load normally;
\* any other failure the decoder reports makes the load fail.
C3_OnlyNoMorePagesEndsLoad ==
    (status = "Ok") => (decErr = "no_more_pages")

\* The Image read_tiff builds from a page.
PageImage(p) ==
    [nrows |-> p.height, ncols |-> p.width, pixels |-> PageToU8(p.data)]

\* C7: a load that returns Ok over a container of N pages returns N Images, the
\* k-th built from the k-th page: height rows, width columns, the dispatcher's
\* output as samples.
C7_OneImagePerPageInOrder ==
    (status = "Ok") =>
        /\ Len(stack) = Len(container)
        /\ \A k \in DOMAIN stack : stack[k] = PageImage(container[k])

---------------------------------------------------------------------------
(* Properties of the viewer (SpecViewer) *)

CacheIsCurrent ==
    (images # <<>> /\ scaled_image.some) =>
        scaled_image.val = Scale(images[current_index + 1], last_scale_factor).val

NavigateClearsOrKeeps ==
    (event'.op = "navigate") =>
        IF current_index' # current_index
        THEN scaled_image' = None /\ texture' = None
        ELSE UNCHANGED <<scaled_image, texture>>

\* C9: a cached scaled image is images[current_index] scaled by
\* last_scale_factor; a navigate that changes the index clears the cache and the
\* texture, one that keeps the index keeps both.
C9_CachedScaleIsCurrent ==
    []CacheIsCurrent /\ [][NavigateClearsOrKeeps]_vars

\* After a navigate to another page, a frame whose scale is within 0.01 of the
\* previous factor still rescales, because the cache was cleared.
C9_Witness ==
    /\ event.op = "update_texture"
    /\ event.scale_factor = <<129, 128>>
    /\ last_scale_factor = <<129, 128>>
    /\ current_index > 0
    /\ scaled_image.some
    /\ texture.some
    /\ images[current_index + 1] # images[1]

IndexInRange == (images # <<>>) => (0 <= current_index /\ current_index < Len(images))

NavigateWrapsInStep ==
    (event'.op = "navigate") =>
        IF images = <<>>
        THEN UNCHANGED <<images, current_index, texture, scaled_image, last_scale_factor>>
        ELSE \E m \in 0..(Len(images) - 1), q \in (0 - MaxDelta - 1)..(MaxDelta + 1) :
                 /\ current_index + event'.delta = q * Len(images) + m
                 /\ current_index' = m

\* C10: navigate(delta) over N > 0 pages sets the index to the non-negative
\* (current_index + delta) mod N, so the index stays in 0..N-1; over no pages
\* it changes nothing.
C10_NavigateWraps ==
    []IndexInRange /\ [][NavigateWrapsInStep]_vars

C10_Witness ==
    /\ event.op = "navigate"
    /\ event.delta < 0
    /\ event.from = 0
    /\ Len(images) = MaxPages
    /\ current_index = Len(images) - 1

====
